---- MODULE Spec2Model ----
(***************************************************************************)
(* Model of server.js: the upload route POST /api/recordings (multer       *)
(* upload.single('audio') followed by the async route handler) and the     *)
(* proximity query GET /api/recordings.                                     *)
(*                                                                         *)
(* Units.  Lengths are integers counted in centimetres (1 km = 100000).    *)
(* A latitude or longitude is counted in centimetres of arc on the sphere  *)
(* of radius 6371 km the query uses, so 90 degrees is 1000754339.8 units.  *)
(* Every coordinate of the model lies on the meridian lng = 0, where the   *)
(* query's 6371 * acos(cos(lat1) cos(lat2) cos(dlng) + sin(lat1) sin(lat2))*)
(* is exactly 6371 * |lat1 - lat2| (radians), i.e. |lat1 - lat2| units.    *)
(***************************************************************************)
EXTENDS Integers, Sequences, FiniteSets, TLC

VARIABLES
  Sounds,    \* the Sounds table: rows in insertion (rowid) order
  uploads,   \* uploadDir: file name -> the request whose bytes the file holds
  now,       \* Date.now()
  req,       \* per POST request: its input, its position in the handler, its response
  search     \* the response of the last GET /api/recordings

vars == <<Sounds, uploads, now, req, search>>

\* ------------------------------------------------------------------ bounds
MaxReq == 2        \* POST requests in one run
MaxClock == 2      \* last value of Date.now() in one run
RandRange == 2     \* values Math.round(Math.random() * 1e9) is drawn from
MaxTail == 2       \* rows of a stored catalog beyond its bulk
MaxExtra == 1      \* rows by which a stored catalog's bulk may exceed LIMIT

Reqs == 1..MaxReq

\* ------------------------------------------------------ request fields
\* A form or query field as the client sent it: absent (undefined), the empty
\* string, a non-numeric string, or a decimal string of value v.
Absent == [k |-> "absent", v |-> 0]
Empty == [k |-> "empty", v |-> 0]
Text == [k |-> "text", v |-> 0]
Num(x) == [k |-> "num", v |-> x]

\* JavaScript's !x for a field: undefined and "" are falsy, every other string is truthy.
Not(f) == f.k \in {"absent", "empty"}

\* parseFloat: a number, or NaN for a string that does not start with one.
parseFloat(f) == IF f.k = "num" THEN [nan |-> FALSE, v |-> f.v] ELSE [nan |-> TRUE, v |-> 0]

\* JavaScript's p || d for a number p: NaN and 0 are falsy.
OrElse(p, d) == IF p.nan \/ p.v = 0 THEN d ELSE p.v

\* ------------------------------------------------------------ uploads
\* An uploaded file as multer sees it: its original name (stem and extension),
\* its declared content type and its size in bytes.
NoFile == [originalname |-> [stem |-> "", ext |-> ""], mimetype |-> "", size |-> 0]
Mp3 == [originalname |-> [stem |-> "a", ext |-> ".mp3"], mimetype |-> "audio/mpeg", size |-> 1000]
Ogg == [originalname |-> [stem |-> "c", ext |-> ".ogg"], mimetype |-> "audio/ogg", size |-> 1000]
BigMp3 == [originalname |-> [stem |-> "d", ext |-> ".mp3"], mimetype |-> "audio/mpeg",
           size |-> 10 * 1024 * 1024 + 1]
Files == {Mp3, Ogg, BigMp3}

\* 91 degrees of arc (one degree is 11119492.66 cm): outside the range of a latitude.
Lat91 == 91 * 11119492

\* The lat and lng form fields the model's clients send with an upload.
PostLats == {Absent, Num(0), Num(Lat91)}
PostLngs == {Empty, Num(0)}

allowedTypes == {"audio/mpeg", "audio/wav", "audio/webm"}

\* A filter that lets every audio/* type through.
fileFilterAnyAudio(file) == file.mimetype \in allowedTypes \cup {"audio/ogg"}

fileFilter(file) == file.mimetype \in allowedTypes

fileSize == 10 * 1024 * 1024

extname(originalname) == originalname.ext

\* `${Date.now()}-${Math.round(Math.random() * 1e9)}${extension}`
filename(ms, rnd, file) == [ms |-> ms, rnd |-> rnd, ext |-> extname(file.originalname)]

NoName == [ms |-> 0, rnd |-> 0 - 1, ext |-> ""]

\* fs: a file is present iff its name is in the domain of uploads.
Exists(name) == name \in DOMAIN uploads
WriteFile(name, r) == [n \in DOMAIN uploads \cup {name} |-> IF n = name THEN r ELSE uploads[n]]
RemoveFile(name) == [n \in DOMAIN uploads \ {name} |-> uploads[n]]

\* fs.unlink(path): rejects with ENOENT when the file is absent, and may reject
\* for a reason of the file system's own (EPERM, EBUSY, EIO), here "EPERM".
UnlinkOutcome(name, fault) ==
  IF ~Exists(name) THEN "ENOENT" ELSE IF fault THEN "EPERM" ELSE "ok"

\* The GET request before it is answered.
NoSearch == [status |-> 0, error |-> "", body |-> <<>>, tie |-> FALSE,
             q |-> [lat |-> Absent, lng |-> Absent, radius |-> Absent]]

IdleReq == [pc |-> "idle", file |-> NoFile, lat |-> Absent, lng |-> Absent, name |-> NoName,
            status |-> 0, error |-> "", row |-> 0, threw |-> "", first |-> "", cleanup |-> ""]

Respond(q, status, error) == [q EXCEPT !.pc = "done", !.status = status, !.error = error]

\* The last middleware: app.use((err, req, res, next) => ... 500 'Something went wrong!').
ErrorMiddleware(q) == Respond(q, 500, "Something went wrong!")

Init ==
  /\ Sounds = <<>>
  /\ uploads = <<>>
  /\ now = 1
  /\ req = [r \in Reqs |-> IdleReq]
  /\ search = NoSearch

\* Date.now() advances.
Tick ==
  /\ now < MaxClock
  /\ now' = now + 1
  /\ UNCHANGED <<Sounds, uploads, req, search>>

\* upload.single('audio'): multer parses the multipart body. The file part, when
\* there is one, passes fileFilter before the storage engine is asked for a name
\* and opens the file; a file longer than limits.fileSize is cut off, removed
\* again, and the error goes to the error middleware.
Upload(r, file, lat, lng, rnd) ==
  /\ req[r].pc = "idle"
  /\ \A p \in Reqs : p < r => req[p].pc # "idle"   \* requests are numbered in arrival order
  /\ LET q == [req[r] EXCEPT !.file = file, !.lat = lat, !.lng = lng]
         name == filename(now, rnd, file)
     IN IF file = NoFile
        THEN /\ req' = [req EXCEPT ![r] = [q EXCEPT !.pc = "handler"]]
             /\ UNCHANGED uploads
        ELSE IF ~fileFilter(file)
        THEN /\ req' = [req EXCEPT ![r] = ErrorMiddleware(q)]
             /\ UNCHANGED uploads
        ELSE IF file.size > fileSize
        THEN /\ req' = [req EXCEPT ![r] = ErrorMiddleware([q EXCEPT !.name = name])]
             /\ uploads' = RemoveFile(name)
        ELSE /\ req' = [req EXCEPT ![r] = [q EXCEPT !.pc = "handler", !.name = name]]
             /\ uploads' = WriteFile(name, r)
  /\ UNCHANGED <<Sounds, now, search>>

\* The route handler up to its first await (lines 105-116).
Handler(r) ==
  /\ req[r].pc = "handler"
  /\ LET q == req[r]
     IN req' = [req EXCEPT ![r] =
          IF q.file = NoFile THEN Respond(q, 400, "No audio file uploaded")
          ELSE IF Not(q.lat) \/ Not(q.lng) THEN [q EXCEPT !.pc = "unlink"]
          ELSE [q EXCEPT !.pc = "create"]]
  /\ UNCHANGED <<Sounds, uploads, now, search>>

\* await fs.unlink(req.file.path) of line 112 and what follows it: the 400
\* response, or the catch block when the unlink rejects.
Unlink(r, fault) ==
  /\ req[r].pc = "unlink"
  /\ LET q == req[r]
         out == UnlinkOutcome(q.name, fault)
     IN IF out = "ok"
        THEN /\ uploads' = RemoveFile(q.name)
             /\ req' = [req EXCEPT ![r] = Respond([q EXCEPT !.first = out], 400, "Missing coordinates")]
        ELSE /\ UNCHANGED uploads
             /\ req' = [req EXCEPT ![r] = [q EXCEPT !.pc = "catch", !.first = out, !.threw = "unlink"]]
  /\ UNCHANGED <<Sounds, now, search>>

\* The row Sound.create inserts (lines 116-123); the id is the next rowid.
NewRow(q, id) ==
  [id |-> id, filename |-> q.name, lat |-> parseFloat(q.lat).v, lng |-> parseFloat(q.lng).v,
   mimetype |-> q.file.mimetype, size |-> q.file.size]

\* await Sound.create(...) and res.status(201).json(recording). The insert may
\* fail (StorageError); serializing and sending the created record may throw.
Create(r, inserted, sent) ==
  /\ req[r].pc = "create"
  /\ LET q == req[r]
         id == Len(Sounds) + 1
     IN IF ~inserted
        THEN /\ UNCHANGED Sounds
             /\ req' = [req EXCEPT ![r] = [q EXCEPT !.pc = "catch", !.threw = "create"]]
        ELSE /\ Sounds' = Append(Sounds, NewRow(q, id))
             /\ req' = [req EXCEPT ![r] =
                  IF sent THEN Respond([q EXCEPT !.row = id], 201, "")
                  ELSE [q EXCEPT !.pc = "catch", !.row = id, !.threw = "send"]]
  /\ UNCHANGED <<uploads, now, search>>

\* The catch block (lines 126-130): if (req.file) await fs.unlink(req.file.path),
\* then the 500 response. When this unlink rejects, the rejection leaves the async
\* handler: under Express 4 no response is ever sent, under Express 5 the error
\* middleware answers.
Catch(r, fault, express5) ==
  /\ req[r].pc = "catch"
  /\ LET q == req[r]
         out == UnlinkOutcome(q.name, fault)
     IN IF out = "ok"
        THEN /\ uploads' = RemoveFile(q.name)
             /\ req' = [req EXCEPT ![r] = Respond([q EXCEPT !.cleanup = out], 500, "Failed to save recording")]
        ELSE /\ UNCHANGED uploads
             /\ req' = [req EXCEPT ![r] =
                  IF express5 THEN ErrorMiddleware([q EXCEPT !.cleanup = out])
                  ELSE Respond([q EXCEPT !.cleanup = out], 0, "")]
  /\ UNCHANGED <<Sounds, now, search>>

Next ==
  \/ Tick
  \/ \E r \in Reqs, file \in Files \cup {NoFile}, lat \in PostLats, lng \in PostLngs,
        rnd \in 0..(RandRange - 1) : Upload(r, file, lat, lng, rnd)
  \/ \E r \in Reqs : Handler(r)
  \/ \E r \in Reqs, fault \in BOOLEAN : Unlink(r, fault)
  \/ \E r \in Reqs, inserted \in BOOLEAN, sent \in BOOLEAN : Create(r, inserted, sent)
  \/ \E r \in Reqs, fault \in BOOLEAN, express5 \in BOOLEAN : Catch(r, fault, express5)

\* The upload pipeline: up to MaxReq concurrent POST requests over an empty store.
\* The failures it draws are those of the awaited calls: Sound.create rejecting,
\* fs.unlink rejecting, and res.status(201).json(recording) throwing.
Spec == Init /\ [][Next]_vars

\* ------------------------------------------------------------- search
Abs(x) == IF x < 0 THEN 0 - x ELSE x
Min(a, b) == IF a < b THEN a ELSE b

\* const { lat, lng, radius=0.25 } = req.query: 0.25 km, in centimetres.
DefaultRadius == 25000
\* parseFloat(radius) || 0.5: 0.5 km, in centimetres.
FallbackRadius == 50000
\* LIMIT 100
Limit == 100

\* 6371 * acos(cos(radians(:latitude)) * cos(radians(lat)) * cos(radians(lng) -
\* radians(:longitude)) + sin(radians(:latitude)) * sin(radians(lat))), on the
\* meridian the model's coordinates share (row.lng = longitude).
Distance(row, latitude, longitude) == Abs(row.lat - latitude)

\* SELECT *, (...) AS distance FROM Sounds
WithDistance(rows, latitude, longitude) ==
  [i \in DOMAIN rows |->
     [id |-> rows[i].id, filename |-> rows[i].filename, lat |-> rows[i].lat, lng |-> rows[i].lng,
      mimetype |-> rows[i].mimetype, size |-> rows[i].size,
      distance |-> Distance(rows[i], latitude, longitude)]]

\* WHERE distance < :radius
IsNear(x, radius) == x.distance < radius
Where(rows, radius) == SelectSeq(rows, LAMBDA x : IsNear(x, radius))

Reverse(s) == [i \in DOMAIN s |-> s[Len(s) + 1 - i]]

RECURSIVE Ascending(_, _, _)
\* The rows of s whose distance is in keys, by increasing distance. SQL leaves
\* the order of rows of equal distance open: rowid order, or (tie) its reverse.
Ascending(s, keys, tie) ==
  IF keys = {} THEN <<>>
  ELSE LET m == CHOOSE k \in keys : \A j \in keys : k <= j
           same == SelectSeq(s, LAMBDA x : x.distance = m)
       IN (IF tie THEN Reverse(same) ELSE same) \o Ascending(s, keys \ {m}, tie)

\* A query without its ORDER BY: the rows in rowid order.
OrderByRowid(s, tie) == s

\* ORDER BY distance
OrderBy(s, tie) == Ascending(s, {s[i].distance : i \in DOMAIN s}, tie)

\* LIMIT 100
Truncate(s) == SubSeq(s, 1, Min(Len(s), Limit))

\* The query of lines 147-168.
Query(rows, latitude, longitude, radius, tie) ==
  Truncate(OrderBy(Where(WithDistance(rows, latitude, longitude), radius), tie))

\* The replacement `radius: searchRadius / 1000` (the model's radii are whole
\* multiples of 1000 cm, so the division is exact).
RadiusParam(searchRadius) == searchRadius \div 1000

\* radius as destructured with its default, then parseFloat(radius) || 0.5.
SearchRadius(radius) ==
  OrElse(parseFloat(IF radius.k = "absent" THEN Num(DefaultRadius) ELSE radius), FallbackRadius)

\* app.get('/api/recordings'): the response to query q over the table rows.
GetRecordings(rows, q, tie) ==
  IF Not(q.lat) \/ Not(q.lng)
  THEN [status |-> 400, error |-> "Missing coordinates", body |-> <<>>, tie |-> FALSE, q |-> q]
  ELSE LET latitude == OrElse(parseFloat(q.lat), 0)
           longitude == OrElse(parseFloat(q.lng), 0)
           searchRadius == SearchRadius(q.radius)
       IN [status |-> 200, error |-> "", tie |-> tie, q |-> q,
           body |-> Query(rows, latitude, longitude, RadiusParam(searchRadius), tie)]

\* The query strings the model's clients send.
GetLats == {Absent, Text, Num(0), Num(Lat91)}
GetLngs == {Empty, Num(0)}
GetRadii == {Absent, Num(0), Num(50000), Num(100000)}
Queries == [lat : GetLats, lng : GetLngs, radius : GetRadii]

Get(q, tie) ==
  /\ search = NoSearch
  /\ search' = GetRecordings(Sounds, q, tie)
  /\ UNCHANGED <<Sounds, uploads, now, req>>

\* A catalog stored by earlier runs of the server (database.sqlite and the upload
\* directory outlive the process): bulk rows close to the origin followed by a
\* few rows at the latitudes of TailLats.
BulkLat(i) == CASE i % 4 = 0 -> 20 [] i % 4 = 1 -> 0 [] i % 4 = 2 -> 40 [] OTHER -> 10
TailLats == {0, 30, 50, Lat91}
StoredName(i) == [ms |-> 0 - i, rnd |-> 0, ext |-> ".mp3"]
StoredRow(i, lat) ==
  [id |-> i, filename |-> StoredName(i), lat |-> lat, lng |-> 0, mimetype |-> "audio/mpeg", size |-> 1000]
StoredCatalog(bulk, tail) ==
  [i \in 1..(bulk + Len(tail)) |-> StoredRow(i, IF i <= bulk THEN BulkLat(i) ELSE tail[i - bulk])]
Tails == UNION {[1..n -> TailLats] : n \in 0..MaxTail}
Bulks == {0} \cup ((Limit - 1)..(Limit + MaxExtra))

InitSearch ==
  /\ \E bulk \in Bulks, tail \in Tails : Sounds = StoredCatalog(bulk, tail)
  /\ uploads = [n \in {Sounds[i].filename : i \in DOMAIN Sounds} |-> 0]
  /\ now = 1
  /\ req = [r \in Reqs |-> IdleReq]
  /\ search = NoSearch

NextSearch == \E q \in Queries, tie \in BOOLEAN : Get(q, tie)

\* The proximity query: one GET over a catalog stored by earlier runs.
SpecSearch == InitSearch /\ [][NextSearch]_vars

\* ------------------------------------------------------------- claims
Finished(r) == req[r].pc = "done"

\* The request's file passed multer (type and size) and was written to uploadDir.
Stored(r) == req[r].file # NoFile /\ fileFilter(req[r].file) /\ req[r].file.size <= fileSize

\* The blob request r wrote is still in the upload directory.
BlobRemains(r) == Exists(req[r].name) /\ uploads[req[r].name] = r

MissingCoordinates(r) == Not(req[r].lat) \/ Not(req[r].lng)

\* Section 3: latitude in [-90, 90] and longitude in [-180, 180] degrees; in
\* centimetres of arc 90 degrees is 1000754339.8 and 180 degrees is 2001508679.6.
ValidLat(v) == v \in (0 - 1000754339)..1000754339
ValidLng(v) == v \in (0 - 2001508679)..2001508679

\* C1: once every POST has finished, and whichever of the steps the claim lists
\* failed (the coordinate check, Sound.create, sending the 201), a row exists iff
\* the blob it references exists: no row without its file, no file without a row.
\* Left out are the runs in which the file system refused an unlink (EPERM), a
\* failure the claim does not list, and the runs in which two uploads were given
\* the same file name (C9).
C1_RowIffBlob ==
  (/\ \A r \in Reqs : req[r].pc \in {"idle", "done"}
   /\ \A r \in Reqs : req[r].first # "EPERM" /\ req[r].cleanup # "EPERM"
   /\ \A r1, r2 \in Reqs : (r1 # r2 /\ req[r1].name # NoName) => req[r1].name # req[r2].name)
  => /\ \A i \in DOMAIN Sounds : Exists(Sounds[i].filename)
     /\ \A n \in DOMAIN uploads : \E i \in DOMAIN Sounds : Sounds[i].filename = n

\* C2: a recording with an out-of-range coordinate is never persisted: no row of
\* the table is out of range, and a finished upload with an out-of-range
\* coordinate got a 400, inserted no row and left no blob.
C2_OutOfRangeNeverPersisted ==
  /\ \A i \in DOMAIN Sounds : ValidLat(Sounds[i].lat) /\ ValidLng(Sounds[i].lng)
  /\ \A r \in Reqs :
       (Finished(r) /\ Stored(r) /\ ~MissingCoordinates(r)
          /\ ~(ValidLat(parseFloat(req[r].lat).v) /\ ValidLng(parseFloat(req[r].lng).v)))
       => (req[r].status = 400 /\ req[r].row = 0 /\ ~BlobRemains(r))

\* C3: when Sound.create failed and the compensating unlink failed too, the
\* client still receives 500 {error: "Failed to save recording"}.
C3_CleanupFailureKeepsResponse ==
  \A r \in Reqs :
    (Finished(r) /\ req[r].threw = "create" /\ req[r].cleanup \in {"ENOENT", "EPERM"})
    => (req[r].status = 500 /\ req[r].error = "Failed to save recording")

\* C4: an upload with an accepted file and a missing lat or lng ends with the blob
\* deleted before the response, the response 400 {error: "Missing coordinates"},
\* no row inserted and the blob gone.
C4_MissingCoordinatesCleanup ==
  \A r \in Reqs :
    (Finished(r) /\ Stored(r) /\ MissingCoordinates(r))
    => /\ req[r].status = 400 /\ req[r].error = "Missing coordinates"
       /\ req[r].first = "ok"
       /\ req[r].row = 0
       /\ ~BlobRemains(r)

\* C5: an upload whose content type is not audio/mpeg, audio/wav or audio/webm
\* never has a blob in the upload directory, is never given a file name, and
\* never inserts a row.
C5_RejectedTypeNeverStored ==
  /\ \A r \in Reqs :
       (req[r].file # NoFile /\ req[r].file.mimetype \notin {"audio/mpeg", "audio/wav", "audio/webm"})
       => /\ \A n \in DOMAIN uploads : uploads[n] # r
          /\ req[r].name = NoName
          /\ req[r].row = 0
  /\ \A i \in DOMAIN Sounds : Sounds[i].mimetype \in {"audio/mpeg", "audio/wav", "audio/webm"}

\* An audio/ogg upload has been answered (by the error middleware).
C5_Witness ==
  \E r \in Reqs : Finished(r) /\ req[r].file = Ogg /\ req[r].status = 500

\* The GET names a centre that is a valid coordinate.
ValidCentre ==
  /\ search.q.lat.k = "num" /\ ValidLat(search.q.lat.v)
  /\ search.q.lng.k = "num" /\ ValidLng(search.q.lng.v)

\* C6: a GET without radius returns what the same GET with radius=0.5 returns.
C6_DefaultRadiusIsHalfKm ==
  (search.status = 200 /\ ValidCentre /\ search.q.radius = Absent)
  => search.body = GetRecordings(Sounds, [search.q EXCEPT !.radius = Num(50 * 1000)], search.tie).body

\* The ids of the rows of the table less than radius (centimetres) from the centre.
Within(latitude, longitude, radius) ==
  {Sounds[i].id : i \in {j \in DOMAIN Sounds : Distance(Sounds[j], latitude, longitude) < radius}}

Returned == {search.body[i].id : i \in DOMAIN search.body}

Latitude == OrElse(parseFloat(search.q.lat), 0)
Longitude == OrElse(parseFloat(search.q.lng), 0)

\* C7: with a radius supplied in kilometres and fewer than 100 recordings within
\* it, Search returns exactly the recordings strictly nearer than the radius.
C7_ExactlyWithinRadiusKm ==
  (search.status = 200 /\ ValidCentre /\ search.q.radius.k = "num" /\ search.q.radius.v > 0
     /\ Cardinality(Within(Latitude, Longitude, search.q.radius.v)) < 100)
  => /\ Returned = Within(Latitude, Longitude, search.q.radius.v)
     /\ \A i \in DOMAIN search.body : search.body[i].distance < search.q.radius.v

\* C8: the returned sequence is sorted by non-decreasing distance, has at most 100
\* items, and no row left out is strictly nearer than a returned one.
C8_SortedTruncatedNearest ==
  search.status = 200
  => /\ \A i \in 1..(Len(search.body) - 1) : search.body[i].distance <= search.body[i + 1].distance
     /\ Len(search.body) <= 100
     /\ \A d \in {search.body[i].distance : i \in DOMAIN search.body} :
          \A j \in DOMAIN Sounds :
            Sounds[j].id \notin Returned => ~(Distance(Sounds[j], Latitude, Longitude) < d)

\* More than 100 rows matched: 100 came back, at several distances, and a match
\* was left out.
C8_Witness ==
  /\ search.status = 200
  /\ Len(search.body) = 100
  /\ Cardinality({search.body[i].distance : i \in DOMAIN search.body}) > 2
  /\ \E j \in DOMAIN Sounds :
       /\ Sounds[j].id \notin Returned
       /\ Distance(Sounds[j], Latitude, Longitude) < RadiusParam(SearchRadius(search.q.radius))

\* C9: any two uploads written to the upload directory were given different
\* file names, also when both names were made in the same millisecond.
C9_FilenamesUnique ==
  \A r1, r2 \in Reqs :
    (r1 # r2 /\ Stored(r1) /\ Stored(r2) /\ req[r1].name # NoName /\ req[r2].name # NoName)
    => req[r1].name # req[r2].name

\* C10: a request rejected for bad input is answered 400 with an {error} body: an
\* upload with an unsupported type, an oversized file, no file or missing
\* coordinates, and a search whose centre is missing, non-numeric or out of range.
C10_BadInputIs400 ==
  /\ \A r \in Reqs :
       (Finished(r) /\ (~Stored(r) \/ MissingCoordinates(r)))
       => (req[r].status = 400 /\ req[r].error # "")
  /\ (search.status # 0
        /\ (\/ Not(search.q.lat) \/ Not(search.q.lng)
            \/ parseFloat(search.q.lat).nan \/ parseFloat(search.q.lng).nan
            \/ ~ValidLat(parseFloat(search.q.lat).v) \/ ~ValidLng(parseFloat(search.q.lng).v)))
     => (search.status = 400 /\ search.error # "")

====
